---- MODULE Spec2Model ----
(***************************************************************************)
(* A model of the White Lotus character-graph pipeline:                    *)
(*   main.py            correct_initial_input_urls, first_static_image,    *)
(*                      main, merge_node_info_to_edges_corrected, __main__ *)
(*   visualize_graph.py create_graph_visualization                         *)
(* Tables (polars DataFrames, CSV files) are sequences of records; a cell  *)
(* is a string, and the null cell (Python None) is the value None.  A file *)
(* is held as the table read_csv yields for it.  The HTTP client, the HTML *)
(* parser, the layout and the rendering library are the environment: a     *)
(* fetch is a choice among the outcomes of requests.get, node positions    *)
(* and the emitted markup are left out.                                    *)
(***************************************************************************)
EXTENDS Integers, Sequences, FiniteSets, TLC

VARIABLES
    pc,               \* position of the running script
    nodes_csv,        \* contents of the file CSV_NODES_INPUT
    edges_csv,        \* contents of the file CSV_EDGES_INPUT
    final_csv,        \* contents of the file CSV_FINAL_OUTPUT (Absent or Written)
    df_nodes,         \* main(): the table read, photo_url column ensured
    updated_rows,     \* main(): the rows rebuilt so far
    filled_nodes_df,  \* __main__: what main() returned (NoneDF or SomeDF)
    escaped,          \* an exception left a stage and reached __main__
    log,              \* history: the stages run and how each ended
    orig_csv,         \* history: CSV_NODES_INPUT as it was before the last stage wrote it
    responses,        \* history: what the fetch of each row handled did
    df_merged,        \* create_graph_visualization: the table read
    row_i,            \* create_graph_visualization: index of the next row
    added_nodes_nx,   \* create_graph_visualization: names registered
    nx_nodes,         \* nx_graph: node id -> attributes, as a sequence in insertion order
    nx_edges,         \* nx_graph: the edges, as a sequence in insertion order
    nt_nodes,         \* the pyvis network's nodes
    nt_edges          \* the pyvis network's edges

vars == <<pc, nodes_csv, edges_csv, final_csv, df_nodes, updated_rows,
          filled_nodes_df, escaped, log, orig_csv, responses, df_merged,
          row_i, added_nodes_nx, nx_nodes, nx_edges, nt_nodes, nt_edges>>

pipeline_vars == <<nodes_csv, edges_csv, final_csv, df_nodes, updated_rows,
                   filled_nodes_df, escaped, log, orig_csv, responses>>

graph_vars == <<df_merged, row_i, added_nodes_nx, nx_nodes, nx_edges,
                nt_nodes, nt_edges>>

----------------------------------------------------------------------------
(* Bounds of the model.                                                    *)

MaxNodes == 2      \* rows of the character table
MaxEdges == 2      \* rows of the relationship table
MaxRuns == 2       \* runs of the URL corrector in SpecCorrector
MaxRecords == 2    \* rows of the merged table given to the graph builder

----------------------------------------------------------------------------
(* Cells.                                                                  *)

None == "<None>"   \* Python None, a polars null

\* Python truthiness of a cell: None and the empty string are falsy.
Truthy(v) == v # None /\ v # ""

\* Python's `a or b`.
Or(a, b) == IF Truthy(a) THEN a ELSE b

\* Optional values (a returned DataFrame | None, a file that may not exist).
NoneDF == [is_none |-> TRUE, rows |-> <<>>]
SomeDF(t) == [is_none |-> FALSE, rows |-> t]
Absent == NoneDF
Written(t) == SomeDF(t)

\* All sequences over S of length at most n.
SeqUpTo(S, n) == UNION {[1..k -> S] : k \in 0..n}

\* Set the field f of the record r (adding it when r has none).
WithField(r, f, v) == [c \in DOMAIN r \cup {f} |-> IF c = f THEN v ELSE r[c]]

\* The record r without the fields in D.
DropFields(r, D) == [c \in DOMAIN r \ D |-> r[c]]

----------------------------------------------------------------------------
(* The input tables.                                                       *)

TanyaUrl == "https://thewhitelotus.fandom.com/wiki/Tanya_McQuoid-Hunt"
LuciaUrl == "https://thewhitelotus.fandom.com/wiki/Lucia_Greco"
BelindaUrl == "https://thewhitelotus.fandom.com/wiki/Belinda_Lindsey"

\* Character names of the input: two names of the corrections list, one that
\* is in no correction, and the null name of an empty cell.
Names == {"Tanya McQuoid", "Belinda", "Greg Hunt", None}

\* wiki_page_url cells of the input: null, empty, a URL.
StaleUrl == "https://thewhitelotus.fandom.com/wiki/Tanya"
WikiUrls == {None, "", StaleUrl}

\* A passthrough column of the character table.
Seasons == {"1", "2"}

\* Rows of CSV_NODES_INPUT without a photo_url column (main() then adds it,
\* all null) and with one, filled by an earlier run.
SkeletonRows == [name : Names, wiki_page_url : WikiUrls, season : Seasons]
PhotoRows == [name : Names, wiki_page_url : WikiUrls, season : Seasons,
              photo_url : {"stale.png"}]

\* The character tables: every row of a table has the same columns.
NodeTables == SeqUpTo(SkeletonRows, MaxNodes) \cup SeqUpTo(PhotoRows, MaxNodes)

----------------------------------------------------------------------------
(* correct_initial_input_urls                                              *)

characters_to_update ==
    << [name |-> "Tanya McQuoid", new_wiki_url |-> TanyaUrl],
       [name |-> "Lucia", new_wiki_url |-> LuciaUrl],
       [name |-> "Belinda", new_wiki_url |-> BelindaUrl] >>

\* A mutant of WithCorrection: rows that do not match lose their URL
\* (an `otherwise` that is not the column itself).
WithCorrectionDropsOthers(df, char_update) ==
    [i \in DOMAIN df |->
        WithField(df[i], "wiki_page_url",
                  IF df[i].name = char_update.name
                  THEN char_update.new_wiki_url
                  ELSE None)]

\* df.with_columns(when(name == char_name).then(new_wiki_url)
\*                 .otherwise(wiki_page_url).alias("wiki_page_url"))
WithCorrection(df, char_update) ==
    [i \in DOMAIN df |->
        WithField(df[i], "wiki_page_url",
                  IF df[i].name = char_update.name
                  THEN char_update.new_wiki_url
                  ELSE df[i].wiki_page_url)]

\* The loop over characters_to_update, from the k-th correction on.
RECURSIVE ApplyCorrections(_, _)
ApplyCorrections(df, k) ==
    IF k > Len(characters_to_update) THEN df
    ELSE ApplyCorrections(WithCorrection(df, characters_to_update[k]), k + 1)

\* Which stages wrap their body in `try: ... except Exception`.
TryExcept == [correct |-> TRUE, main |-> TRUE, merge |-> TRUE]

\* The corrector reads the file, rewrites the URLs and writes the file back.
CorrectOk ==
    /\ pc = "correct"
    /\ orig_csv' = nodes_csv
    /\ nodes_csv' = ApplyCorrections(nodes_csv, 1)
    /\ log' = Append(log, "correct_ok")
    /\ pc' = "main"
    /\ UNCHANGED <<edges_csv, final_csv, df_nodes, updated_rows,
                   filled_nodes_df, escaped, responses>>
    /\ UNCHANGED graph_vars

\* An I/O or schema error inside the try block: nothing is written.
CorrectError ==
    /\ pc = "correct"
    /\ orig_csv' = nodes_csv
    /\ log' = Append(log, "correct_error")
    /\ escaped' = (escaped \/ ~TryExcept.correct)
    /\ pc' = IF TryExcept.correct THEN "main" ELSE "crashed"
    /\ UNCHANGED <<nodes_csv, edges_csv, final_csv, df_nodes, updated_rows,
                   filled_nodes_df, responses>>
    /\ UNCHANGED graph_vars

----------------------------------------------------------------------------
(* first_static_image                                                      *)

\* The src attribute of an <img>, given as the pieces src.split("/revision/")
\* yields: <<"a">> is the string "a", <<"a", "b">> is "a/revision/b".
ImgSrcs == { <<"portrait.png", "latest?cb=1">>, <<"", "latest">> }

\* Whether the string with these pieces is the empty string.
SrcIsEmpty(parts) == Len(parts) = 1 /\ parts[1] = ""

\* What select_one("figure.pi-item.pi-image a.image-thumbnail img") finds:
\* no element, an element with no src attribute, an element with a src.
Imgs == {[found |-> FALSE, has_src |-> FALSE, src |-> <<"">>],
         [found |-> TRUE, has_src |-> FALSE, src |-> <<"">>]}
        \cup {[found |-> TRUE, has_src |-> TRUE, src |-> p] : p \in ImgSrcs}

\* What requests.get does: it raises (a timeout after 15 s, a connection
\* failure) or it returns a response with a status code and a page.
Raised == {[kind |-> k, status_code |-> 0,
            img |-> [found |-> FALSE, has_src |-> FALSE, src |-> <<"">>]] :
           k \in {"Timeout", "ConnectionError"}}
Returned == {[kind |-> "Response", status_code |-> 404,
              img |-> [found |-> FALSE, has_src |-> FALSE, src |-> <<"">>]]}
            \cup {[kind |-> "Response", status_code |-> 200, img |-> im] :
                  im \in Imgs}
\* The history entry of a row for which no request was made.
NoRequest == [kind |-> "NoRequest", status_code |-> 0,
              img |-> [found |-> FALSE, has_src |-> FALSE, src |-> <<"">>]]

\* first_static_image on a response that requests.get returned.
first_static_image(r) ==
    IF r.status_code # 200 THEN None
    ELSE IF r.img.found /\ r.img.has_src /\ ~SrcIsEmpty(r.img.src)
         THEN r.img.src[1]
         ELSE None

----------------------------------------------------------------------------
(* main                                                                    *)

\* `if "photo_url" not in df_nodes.columns`: add the column, all null.
EnsurePhotoUrl(df) ==
    [i \in DOMAIN df |->
        IF "photo_url" \in DOMAIN df[i] THEN df[i]
        ELSE WithField(df[i], "photo_url", None)]

\* A mutant of FilledPhoto: the resolver's None is stored as it is.
FilledPhotoKeepsNone(photo_url) == photo_url

\* `photo_url if photo_url else ""`
FilledPhoto(photo_url) == IF Truthy(photo_url) THEN photo_url ELSE ""

\* The row the loop of main() is at.
CurrentRow == df_nodes[Len(updated_rows) + 1]

\* read_csv succeeded: the loop starts.
MainRead ==
    /\ pc = "main"
    /\ df_nodes' = EnsurePhotoUrl(nodes_csv)
    /\ updated_rows' = <<>>
    /\ pc' = "main_loop"
    /\ UNCHANGED <<nodes_csv, edges_csv, final_csv, filled_nodes_df, escaped,
                   log, orig_csv, responses>>
    /\ UNCHANGED graph_vars

\* An exception inside main() reaches `except Exception`: main returns None.
MainFails ==
    /\ filled_nodes_df' = NoneDF
    /\ log' = Append(log, "main_error")
    /\ escaped' = (escaped \/ ~TryExcept.main)
    /\ pc' = IF TryExcept.main THEN "gate" ELSE "crashed"

\* read_csv raised (no file, malformed content).
MainReadError ==
    /\ pc = "main"
    /\ MainFails
    /\ UNCHANGED <<nodes_csv, edges_csv, final_csv, df_nodes, updated_rows,
                   orig_csv, responses>>
    /\ UNCHANGED graph_vars

\* One row with a usable wiki_page_url whose page was fetched.
MainRowFetched ==
    /\ pc = "main_loop"
    /\ Len(updated_rows) < Len(df_nodes)
    /\ Truthy(CurrentRow.wiki_page_url)
    /\ \E r \in Returned :
        /\ responses' = Append(responses, r)
        /\ updated_rows' =
             Append(updated_rows,
                    WithField(CurrentRow, "photo_url",
                              FilledPhoto(first_static_image(r))))
    /\ UNCHANGED <<pc, nodes_csv, edges_csv, final_csv, df_nodes,
                   filled_nodes_df, escaped, log, orig_csv>>
    /\ UNCHANGED graph_vars

\* One row with a usable wiki_page_url whose fetch raised: first_static_image
\* has no handler, so the exception ends the loop in main()'s handler.
MainRowRaised ==
    /\ pc = "main_loop"
    /\ Len(updated_rows) < Len(df_nodes)
    /\ Truthy(CurrentRow.wiki_page_url)
    /\ \E r \in Raised : responses' = Append(responses, r)
    /\ MainFails
    /\ UNCHANGED <<nodes_csv, edges_csv, final_csv, df_nodes, updated_rows,
                   orig_csv>>
    /\ UNCHANGED graph_vars

\* One row with no usable wiki_page_url: no request is made.
MainRowNoUrl ==
    /\ pc = "main_loop"
    /\ Len(updated_rows) < Len(df_nodes)
    /\ ~Truthy(CurrentRow.wiki_page_url)
    /\ updated_rows' = Append(updated_rows, WithField(CurrentRow, "photo_url", ""))
    /\ responses' = Append(responses, NoRequest)
    /\ UNCHANGED <<pc, nodes_csv, edges_csv, final_csv, df_nodes,
                   filled_nodes_df, escaped, log, orig_csv>>
    /\ UNCHANGED graph_vars

\* The loop is over: pl.DataFrame(updated_rows, schema=df_nodes.schema).
MainReturn ==
    /\ pc = "main_loop"
    /\ Len(updated_rows) = Len(df_nodes)
    /\ filled_nodes_df' = SomeDF(updated_rows)
    /\ log' = Append(log, "main_ok")
    /\ pc' = "gate"
    /\ UNCHANGED <<nodes_csv, edges_csv, final_csv, df_nodes, updated_rows,
                   escaped, orig_csv, responses>>
    /\ UNCHANGED graph_vars

----------------------------------------------------------------------------
(* __main__: the check between main() and the merge                        *)

\* A mutant of ShouldMerge: the merge runs whatever main() returned.
ShouldMergeAlways(df) == TRUE

\* `if filled_nodes_df is not None`
ShouldMerge(df) == ~df.is_none

Gate ==
    /\ pc = "gate"
    /\ IF ShouldMerge(filled_nodes_df)
       THEN pc' = "merge" /\ log' = log
       ELSE pc' = "done" /\ log' = Append(log, "merge_skipped")
    /\ UNCHANGED <<nodes_csv, edges_csv, final_csv, df_nodes, updated_rows,
                   filled_nodes_df, escaped, orig_csv, responses>>
    /\ UNCHANGED graph_vars

----------------------------------------------------------------------------
(* merge_node_info_to_edges_corrected                                      *)

\* Rows of CSV_EDGES_INPUT: two names, and the null label of an empty cell.
EdgeNames == {"Belinda", "Greg Hunt", None}
EdgeRows == [source_label : EdgeNames, target_label : EdgeNames,
             relationship : {"friend"}]
EdgeTables == SeqUpTo(EdgeRows, MaxEdges)

\* df_nodes_filled.select(name as <role>_join_key, wiki_page_url as
\* <role>_wiki_page_url, photo_url as <role>_photo_url), one per role.
SourceProjection(df) ==
    [i \in DOMAIN df |-> [source_join_key |-> df[i].name,
                          source_wiki_page_url |-> df[i].wiki_page_url,
                          source_photo_url |-> df[i].photo_url]]
TargetProjection(df) ==
    [i \in DOMAIN df |-> [target_join_key |-> df[i].name,
                          target_wiki_page_url |-> df[i].wiki_page_url,
                          target_photo_url |-> df[i].photo_url]]

\* The rows of `right` whose key equals v, in the order of `right`; a null
\* key matches nothing.
RECURSIVE Matching(_, _, _)
Matching(right, right_on, v) ==
    IF right = <<>> THEN <<>>
    ELSE (IF v # None /\ Head(right)[right_on] = v
          THEN <<DropFields(Head(right), {right_on})>> ELSE <<>>)
         \o Matching(Tail(right), right_on, v)

\* The joined rows of one left row: one per match, or one with nulls.
JoinRow(l, matches, nulls) ==
    IF matches = <<>> THEN <<l @@ nulls>>
    ELSE [k \in DOMAIN matches |-> l @@ matches[k]]

\* A mutant of LeftJoin: an inner join, which drops the rows with no match.
RECURSIVE InnerJoin(_, _, _, _, _)
InnerJoin(left, right, left_on, right_on, nulls) ==
    IF left = <<>> THEN <<>>
    ELSE (LET m == Matching(right, right_on, Head(left)[left_on])
          IN IF m = <<>> THEN <<>> ELSE JoinRow(Head(left), m, nulls))
         \o InnerJoin(Tail(left), right, left_on, right_on, nulls)

\* left.join(right, left_on=, right_on=, how="left"): the rows of `left` in
\* order; the right key column is not part of the result.
RECURSIVE LeftJoin(_, _, _, _, _)
LeftJoin(left, right, left_on, right_on, nulls) ==
    IF left = <<>> THEN <<>>
    ELSE JoinRow(Head(left), Matching(right, right_on, Head(left)[left_on]), nulls)
         \o LeftJoin(Tail(left), right, left_on, right_on, nulls)

\* The join keys that are still columns are dropped at the end.
DropJoinKeys(df) ==
    [i \in DOMAIN df |->
        DropFields(df[i], {"source_join_key", "target_join_key"} \cap DOMAIN df[i])]

\* A mutant of MergedTable: the target columns are joined on source_label.
MergedTableTargetOnSource(df_edges, df_nodes_filled) ==
    LET df_merged_with_source ==
            LeftJoin(df_edges, SourceProjection(df_nodes_filled),
                     "source_label", "source_join_key",
                     [source_wiki_page_url |-> None, source_photo_url |-> None])
        df_final_merged ==
            LeftJoin(df_merged_with_source, TargetProjection(df_nodes_filled),
                     "source_label", "target_join_key",
                     [target_wiki_page_url |-> None, target_photo_url |-> None])
    IN DropJoinKeys(df_final_merged)

\* The two joins and the drop: the table written to CSV_FINAL_OUTPUT.
MergedTable(df_edges, df_nodes_filled) ==
    LET df_merged_with_source ==
            LeftJoin(df_edges, SourceProjection(df_nodes_filled),
                     "source_label", "source_join_key",
                     [source_wiki_page_url |-> None, source_photo_url |-> None])
        df_final_merged ==
            LeftJoin(df_merged_with_source, TargetProjection(df_nodes_filled),
                     "target_label", "target_join_key",
                     [target_wiki_page_url |-> None, target_photo_url |-> None])
    IN DropJoinKeys(df_final_merged)

MergeOk ==
    /\ pc = "merge"
    /\ ~filled_nodes_df.is_none
    /\ final_csv' = Written(MergedTable(edges_csv, filled_nodes_df.rows))
    /\ log' = Append(log, "merge_ok")
    /\ pc' = "done"
    /\ UNCHANGED <<nodes_csv, edges_csv, df_nodes, updated_rows,
                   filled_nodes_df, escaped, orig_csv, responses>>
    /\ UNCHANGED graph_vars

\* An exception inside the try block (no edges file, a failed join): nothing
\* is written.
MergeError ==
    /\ pc = "merge"
    /\ log' = Append(log, "merge_error")
    /\ escaped' = (escaped \/ ~TryExcept.merge)
    /\ pc' = IF TryExcept.merge THEN "done" ELSE "crashed"
    /\ UNCHANGED <<nodes_csv, edges_csv, final_csv, df_nodes, updated_rows,
                   filled_nodes_df, orig_csv, responses>>
    /\ UNCHANGED graph_vars

----------------------------------------------------------------------------
(* create_graph_visualization                                              *)

DEFAULT_IMAGE_PLACEHOLDER ==
    "https://via.placeholder.com/150/CCCCCC/000000?Text=No+Image"
node_size == 60
label_font_size == 20
edge_font_size == 14

\* The columns of CSV_FINAL_OUTPUT the builder reads.
MergedRows == [source_label : EdgeNames, target_label : EdgeNames,
               source_photo_url : {None, "portrait.png"},
               target_photo_url : {None, "portrait.png"},
               relationship : {None, "friend"}]
MergedTables == SeqUpTo(MergedRows, MaxRecords)

\* `row.get("source_photo_url") or DEFAULT_IMAGE_PLACEHOLDER`
PhotoOf(cell) == Or(cell, DEFAULT_IMAGE_PLACEHOLDER)

\* A mutant of RelationshipOf: the cell is used as it is.
RelationshipRaw(cell) == cell

\* `row.get("relationship") or "related"`
RelationshipOf(cell) == Or(cell, "related")

\* A mutant of NodeAdmitted: a name with the placeholder is a node too.
NodeAdmittedAnyPhoto(name, photo, added) ==
    Truthy(name) /\ name \notin added

\* `if name and name not in added_nodes_nx: if photo != DEFAULT_IMAGE_PLACEHOLDER`
NodeAdmitted(name, photo, added) ==
    Truthy(name) /\ name \notin added /\ photo # DEFAULT_IMAGE_PLACEHOLDER

\* nx_graph.add_node(name, label=, shape=, image=, title=, size=, font_size=)
AddNode(nodes, name, photo) ==
    Append(nodes, [id |-> name, label |-> name, shape |-> "image",
                   image |-> photo, title |-> name, size |-> node_size,
                   font_size |-> label_font_size])

\* The edge e joins u and v, in either direction.
Joins(e, u, v) == (e.u = u /\ e.v = v) \/ (e.u = v /\ e.v = u)

\* A mutant of AddEdge: a multigraph, which keeps parallel edges.
AddEdgeParallel(edges, u, v, relationship) ==
    Append(edges, [u |-> u, v |-> v, title |-> relationship,
                   label |-> relationship, font_size |-> edge_font_size])

\* nx_graph.add_edge(u, v, title=, label=, font_size=) on an nx.Graph: an
\* edge that exists has its attributes overwritten.
AddEdge(edges, u, v, relationship) ==
    IF \E k \in DOMAIN edges : Joins(edges[k], u, v)
    THEN [k \in DOMAIN edges |->
            IF Joins(edges[k], u, v)
            THEN [edges[k] EXCEPT !.title = relationship,
                                  !.label = relationship,
                                  !.font_size = edge_font_size]
            ELSE edges[k]]
    ELSE Append(edges, [u |-> u, v |-> v, title |-> relationship,
                        label |-> relationship, font_size |-> edge_font_size])

\* The file is there and read_csv succeeded.
GraphRead ==
    /\ pc = "graph"
    /\ pc' = "graph_loop"
    /\ UNCHANGED pipeline_vars
    /\ UNCHANGED graph_vars

\* No file CSV_FINAL_OUTPUT, or read_csv raised: the builder returns.
GraphNoInput ==
    /\ pc = "graph"
    /\ pc' = "graph_returned"
    /\ UNCHANGED pipeline_vars
    /\ UNCHANGED graph_vars

\* One row of the loop over df_merged.
GraphRow ==
    /\ pc = "graph_loop"
    /\ row_i < Len(df_merged)
    /\ LET row == df_merged[row_i + 1]
           source_name == row.source_label
           target_name == row.target_label
           source_photo == PhotoOf(row.source_photo_url)
           target_photo == PhotoOf(row.target_photo_url)
           relationship == RelationshipOf(row.relationship)
           add_source == NodeAdmitted(source_name, source_photo, added_nodes_nx)
           added1 == IF add_source THEN added_nodes_nx \cup {source_name}
                     ELSE added_nodes_nx
           nodes1 == IF add_source THEN AddNode(nx_nodes, source_name, source_photo)
                     ELSE nx_nodes
           add_target == NodeAdmitted(target_name, target_photo, added1)
           added2 == IF add_target THEN added1 \cup {target_name} ELSE added1
           nodes2 == IF add_target THEN AddNode(nodes1, target_name, target_photo)
                     ELSE nodes1
       IN /\ added_nodes_nx' = added2
          /\ nx_nodes' = nodes2
          /\ nx_edges' =
                IF /\ Truthy(source_name) /\ Truthy(target_name)
                   /\ source_name \in added2 /\ target_name \in added2
                THEN AddEdge(nx_edges, source_name, target_name, relationship)
                ELSE nx_edges
    /\ row_i' = row_i + 1
    /\ UNCHANGED <<pc, df_merged, nt_nodes, nt_edges>>
    /\ UNCHANGED pipeline_vars

\* The position of the node id in the graph's node order.
NodeIndex(nodes, id) == CHOOSE k \in DOMAIN nodes : nodes[k].id = id

\* The other end of the edge e, seen from the node id.
OtherEnd(e, id) == IF e.u = id THEN e.v ELSE e.u

\* nx_graph.edges(data=True) from the a-th node on: each node in node order,
\* its neighbours in adjacency order, an edge reported at the first of its
\* two ends and directed from it.
RECURSIVE EdgesView(_, _, _)
EdgesView(nodes, edges, a) ==
    IF a > Len(nodes) THEN <<>>
    ELSE LET id == nodes[a].id
             mine == SelectSeq(edges,
                        LAMBDA e : /\ (e.u = id \/ e.v = id)
                                   /\ NodeIndex(nodes, OtherEnd(e, id)) >= a)
         IN [k \in DOMAIN mine |->
                [from |-> id, to |-> OtherEnd(mine[k], id),
                 title |-> mine[k].title, label |-> mine[k].label,
                 font_size |-> mine[k].font_size]]
            \o EdgesView(nodes, edges, a + 1)

\* The layout gives every node of nx_graph a position (not modelled); the
\* nodes and the edges are copied to the pyvis network in that order.
GraphEmit ==
    /\ pc = "graph_loop"
    /\ row_i = Len(df_merged)
    /\ nt_nodes' = [k \in DOMAIN nx_nodes |->
                        [id |-> nx_nodes[k].id, label |-> nx_nodes[k].label,
                         shape |-> "image", image |-> nx_nodes[k].image,
                         title |-> nx_nodes[k].title, size |-> nx_nodes[k].size,
                         font_size |-> nx_nodes[k].font_size]]
    /\ nt_edges' = EdgesView(nx_nodes, nx_edges, 1)
    /\ pc' = "graph_built"
    /\ UNCHANGED <<df_merged, row_i, added_nodes_nx, nx_nodes, nx_edges>>
    /\ UNCHANGED pipeline_vars

----------------------------------------------------------------------------
(* The specifications.                                                     *)

\* The graph builder's variables while the pipeline script runs.
GraphIdle ==
    /\ df_merged = <<>>
    /\ row_i = 0
    /\ added_nodes_nx = {}
    /\ nx_nodes = <<>>
    /\ nx_edges = <<>>
    /\ nt_nodes = <<>>
    /\ nt_edges = <<>>

\* The pipeline's variables before any stage ran.
PipelineFresh ==
    /\ final_csv = Absent
    /\ df_nodes = <<>>
    /\ updated_rows = <<>>
    /\ filled_nodes_df = NoneDF
    /\ escaped = FALSE
    /\ log = <<>>
    /\ orig_csv = nodes_csv
    /\ responses = <<>>

\* The relationship files of the whole-script runs.
ScriptEdgeTables ==
    { <<>>,
      << [source_label |-> "Belinda", target_label |-> "Greg Hunt",
          relationship |-> "friend"],
         [source_label |-> "Tanya McQuoid", target_label |-> "Belinda",
          relationship |-> None] >> }

\* Spec: one run of the script main.py (__main__).
ScriptNodeTables ==
    {t \in NodeTables : \A i \in DOMAIN t : t[i].name \in {"Belinda", "Greg Hunt"}}

Init ==
    /\ pc = "correct"
    /\ nodes_csv \in ScriptNodeTables
    /\ edges_csv \in ScriptEdgeTables
    /\ PipelineFresh
    /\ GraphIdle

Next ==
    \/ CorrectOk
    \/ CorrectError
    \/ MainRead
    \/ MainReadError
    \/ MainRowFetched
    \/ MainRowRaised
    \/ MainRowNoUrl
    \/ MainReturn
    \/ Gate
    \/ MergeOk
    \/ MergeError

Spec == Init /\ [][Next]_vars

\* SpecCorrector: the URL corrector run up to MaxRuns times on one file.
RunAgain ==
    /\ pc = "main"
    /\ Len(log) < MaxRuns
    /\ pc' = "correct"
    /\ UNCHANGED pipeline_vars
    /\ UNCHANGED graph_vars

InitCorrector ==
    /\ pc = "correct"
    /\ nodes_csv \in NodeTables
    /\ edges_csv = <<>>
    /\ PipelineFresh
    /\ GraphIdle

NextCorrector ==
    \/ CorrectOk
    \/ CorrectError
    \/ RunAgain

SpecCorrector == InitCorrector /\ [][NextCorrector]_vars

\* SpecMerge: the merge stage on any relationship table and any enriched
\* character table.
\* Rows main() can return: a portrait only where there is a URL.
EnrichedRows ==
    {r \in [name : EdgeNames, wiki_page_url : {None, StaleUrl},
            season : {"1"}, photo_url : {"", "portrait.png"}] :
        r.wiki_page_url = None => r.photo_url = ""}
EnrichedTables == SeqUpTo(EnrichedRows, MaxNodes)

InitMerge ==
    /\ pc = "merge"
    /\ nodes_csv = <<>>
    /\ edges_csv \in EdgeTables
    /\ final_csv = Absent
    /\ df_nodes = <<>>
    /\ updated_rows = <<>>
    /\ filled_nodes_df \in {SomeDF(t) : t \in EnrichedTables}
    /\ escaped = FALSE
    /\ log = <<>>
    /\ orig_csv = <<>>
    /\ responses = <<>>
    /\ GraphIdle

NextMerge ==
    \/ MergeOk
    \/ MergeError

SpecMerge == InitMerge /\ [][NextMerge]_vars

\* SpecGraph: the graph builder on any merged table.
InitGraph ==
    /\ pc = "graph"
    /\ nodes_csv = <<>>
    /\ edges_csv = <<>>
    /\ PipelineFresh
    /\ df_merged \in MergedTables
    /\ row_i = 0
    /\ added_nodes_nx = {}
    /\ nx_nodes = <<>>
    /\ nx_edges = <<>>
    /\ nt_nodes = <<>>
    /\ nt_edges = <<>>

NextGraph ==
    \/ GraphRead
    \/ GraphNoInput
    \/ GraphRow
    \/ GraphEmit

SpecGraph == InitGraph /\ [][NextGraph]_vars

----------------------------------------------------------------------------
(* Properties of the pipeline (main.py).                                   *)

InLog(e) == \E i \in DOMAIN log : log[i] = e
LastLog == IF log = <<>> THEN "" ELSE log[Len(log)]
AfterMain == pc \in {"gate", "merge", "done"}
Restrict(r, D) == [c \in D |-> r[c]]

\* The fetch did not give a page: it raised, or the status is no success.
NetworkError(r) ==
    \/ r.kind \in {"Timeout", "ConnectionError"}
    \/ r.kind = "Response" /\ r.status_code # 200

\* The page was fetched and the selection rule found no portrait in it.
NoPortrait(r) ==
    /\ r.kind = "Response"
    /\ \/ r.status_code # 200
       \/ ~r.img.found
       \/ ~r.img.has_src
       \/ SrcIsEmpty(r.img.src)

\* C5: a fetch that fails with a timeout, a connection failure or a
\* non-success status gives that row an empty portrait, the rows before it
\* keep theirs, and main() still returns the table (not None).
C5_NetworkErrorsNotPropagated ==
    \A i \in DOMAIN responses :
        NetworkError(responses[i]) =>
            /\ Len(updated_rows) >= i
            /\ updated_rows[i].photo_url = ""
            /\ AfterMain => ~filled_nodes_df.is_none

\* C8: the merge is entered only after main() returned a table; when main()
\* failed the merge is never entered and CSV_FINAL_OUTPUT is not written; a
\* failed corrector is followed by main(); no exception leaves a stage.
C8_StageGating ==
    /\ ~escaped /\ pc # "crashed"
    /\ (pc = "merge" \/ InLog("merge_ok") \/ InLog("merge_error")) =>
            InLog("main_ok") /\ ~filled_nodes_df.is_none
    /\ InLog("main_error") =>
            /\ pc # "merge"
            /\ ~InLog("merge_ok") /\ ~InLog("merge_error")
            /\ final_csv = Absent
            /\ pc = "done" => LastLog = "merge_skipped"
    /\ final_csv # Absent => LastLog = "merge_ok"
    /\ LastLog = "correct_error" =>
            pc \in {"main", "main_loop"} /\ nodes_csv = orig_csv

\* A run in which the corrector failed, then main() failed, and the script
\* ended without entering the merge.
C8_Witness ==
    /\ pc = "done"
    /\ log = <<"correct_error", "main_error", "merge_skipped">>
    /\ Len(responses) = 2

\* C9: in the table a successful main() returns every photo_url is a string,
\* the empty string for a row with no wiki_page_url and for a row whose page
\* gave no portrait; rows, their order and the other columns are the input's.
C9_PhotoUrlNeverNull ==
    (AfterMain /\ ~filled_nodes_df.is_none) =>
        LET out == filled_nodes_df.rows
        IN /\ Len(out) = Len(nodes_csv)
           /\ Len(responses) = Len(nodes_csv)
           /\ \A i \in DOMAIN out :
                /\ DOMAIN out[i] = DOMAIN nodes_csv[i] \cup {"photo_url"}
                /\ \A c \in DOMAIN nodes_csv[i] \ {"photo_url"} :
                        out[i][c] = nodes_csv[i][c]
                /\ out[i].photo_url # None
                /\ ~Truthy(nodes_csv[i].wiki_page_url) => out[i].photo_url = ""
                /\ NoPortrait(responses[i]) => out[i].photo_url = ""

\* main() returned a table with a row that had no URL, after a row whose
\* page had no portrait.
C9_Witness ==
    /\ AfterMain /\ ~filled_nodes_df.is_none
    /\ Len(filled_nodes_df.rows) = 2
    /\ NoPortrait(responses[1])
    /\ nodes_csv[2].wiki_page_url = None
    /\ "photo_url" \notin DOMAIN nodes_csv[1]
    /\ filled_nodes_df.rows[1].photo_url = ""
    /\ filled_nodes_df.rows[2].photo_url = ""

----------------------------------------------------------------------------
(* Properties of the URL corrector.                                        *)

\* The corrections whose name is the name of the row.
CorrectionsOf(row) ==
    {k \in DOMAIN characters_to_update : characters_to_update[k].name = row.name}

\* C10: after the corrector, a row named in a correction has that
\* correction's URL, any other row has its URL unchanged, nothing else
\* changes; and a second run leaves the file as the first run left it.
C10_CorrectorEffectAndFrame ==
    LastLog = "correct_ok" =>
        /\ Len(nodes_csv) = Len(orig_csv)
        /\ \A i \in DOMAIN nodes_csv :
            /\ DOMAIN nodes_csv[i] = DOMAIN orig_csv[i]
            /\ \A c \in DOMAIN orig_csv[i] \ {"wiki_page_url"} :
                    nodes_csv[i][c] = orig_csv[i][c]
            /\ \A k \in CorrectionsOf(orig_csv[i]) :
                    nodes_csv[i].wiki_page_url = characters_to_update[k].new_wiki_url
            /\ CorrectionsOf(orig_csv[i]) = {} =>
                    nodes_csv[i].wiki_page_url = orig_csv[i].wiki_page_url
        /\ (\E j \in 1..(Len(log) - 1) : log[j] = "correct_ok") =>
                nodes_csv = orig_csv

\* The corrector ran twice on a file with a row it rewrites and a row, with
\* a URL, that it leaves alone.
C10_Witness ==
    /\ log = <<"correct_ok", "correct_ok">>
    /\ Len(nodes_csv) = 2
    /\ nodes_csv[1].name = "Tanya McQuoid"
    /\ nodes_csv[1].wiki_page_url = TanyaUrl
    /\ nodes_csv[2].name = "Greg Hunt"
    /\ nodes_csv[2].wiki_page_url = StaleUrl

----------------------------------------------------------------------------
(* Properties of the merge.                                                *)

\* How many rows of the character table have the name v (null is no name).
RECURSIVE CountName(_, _)
CountName(df, v) ==
    IF df = <<>> THEN 0
    ELSE (IF v # None /\ Head(df).name = v THEN 1 ELSE 0) + CountName(Tail(df), v)

\* No name is the name of two rows of the character table.
UniqueNames(df) == \A i \in DOMAIN df : CountName(df, df[i].name) <= 1

EdgeColumns == {"source_label", "target_label", "relationship"}

\* C6 as stated: for any tables the merge output has as many rows as the
\* relationship table.
C6_RowCountPreserved ==
    final_csv # Absent => Len(final_csv.rows) = Len(edges_csv)

\* C6 amended: no relationship row is ever lost, and when no name occurs in
\* two rows of the character table the output has exactly as many rows as
\* the relationship table.
C6_RowCountPreservedUniqueNames ==
    final_csv # Absent =>
        /\ Len(final_csv.rows) >= Len(edges_csv)
        /\ \A i \in DOMAIN edges_csv :
                \E j \in DOMAIN final_csv.rows :
                    Restrict(final_csv.rows[j], EdgeColumns) = edges_csv[i]
        /\ UniqueNames(filled_nodes_df.rows) =>
                Len(final_csv.rows) = Len(edges_csv)

\* The merge wrote two rows for two relationships whose names each match
\* one character.
C6_Witness ==
    /\ final_csv # Absent
    /\ Len(edges_csv) = 2
    /\ Len(final_csv.rows) = 2
    /\ Len(filled_nodes_df.rows) = 2
    /\ UniqueNames(filled_nodes_df.rows)
    /\ CountName(filled_nodes_df.rows, edges_csv[1].source_label) = 1
    /\ CountName(filled_nodes_df.rows, edges_csv[2].target_label) = 1

\* The joined cells of one role of an output row are those of a character
\* with that name, or null when no character has the name.
JoinedFrom(df, label, wiki, photo) ==
    IF CountName(df, label) = 0
    THEN wiki = None /\ photo = None
    ELSE \E i \in DOMAIN df :
            /\ df[i].name = label
            /\ wiki = df[i].wiki_page_url
            /\ photo = df[i].photo_url

\* C7: in every output row the source and target cells are those of the
\* character named by source_label and target_label, null when there is
\* none, and the relationship's own columns are unchanged.
C7_MergedFields ==
    final_csv # Absent =>
        LET out == final_csv.rows
            chars == filled_nodes_df.rows
        IN /\ \A j \in DOMAIN out :
                /\ DOMAIN out[j] = EdgeColumns \cup
                        {"source_wiki_page_url", "source_photo_url",
                         "target_wiki_page_url", "target_photo_url"}
                /\ JoinedFrom(chars, out[j].source_label,
                              out[j].source_wiki_page_url, out[j].source_photo_url)
                /\ JoinedFrom(chars, out[j].target_label,
                              out[j].target_wiki_page_url, out[j].target_photo_url)
                /\ \E i \in DOMAIN edges_csv :
                        Restrict(out[j], EdgeColumns) = edges_csv[i]
           /\ UniqueNames(chars) =>
                /\ Len(out) = Len(edges_csv)
                /\ \A i \in DOMAIN edges_csv :
                        Restrict(out[i], EdgeColumns) = edges_csv[i]

\* The merge wrote a row whose source matches a character with a portrait
\* and whose target, another name, matches no character.
C7_Witness ==
    /\ final_csv # Absent
    /\ \E j \in DOMAIN final_csv.rows :
        LET o == final_csv.rows[j]
        IN /\ o.source_label = "Belinda"
           /\ o.source_photo_url = "portrait.png"
           /\ o.source_wiki_page_url = StaleUrl
           /\ o.target_label = "Greg Hunt"
           /\ o.target_photo_url = None
           /\ o.target_wiki_page_url = None

----------------------------------------------------------------------------
(* Properties of the graph builder.                                        *)

Built == pc = "graph_built"

\* The names of the table: the non-empty cells of source_label and target_label.
TableNames ==
    {n \in {df_merged[i].source_label : i \in DOMAIN df_merged}
           \cup {df_merged[i].target_label : i \in DOMAIN df_merged} : Truthy(n)}

\* A photo cell that holds a portrait.
RealPhoto(cell) == Truthy(cell) /\ cell # DEFAULT_IMAGE_PLACEHOLDER

\* Row i gives the name n a portrait, as its source or as its target.
GivesPortrait(i, n) ==
    \/ df_merged[i].source_label = n /\ RealPhoto(df_merged[i].source_photo_url)
    \/ df_merged[i].target_label = n /\ RealPhoto(df_merged[i].target_photo_url)

\* The name n has been given a portrait by one of the rows 1..i.
RegisteredBy(n, i) == Truthy(n) /\ \E j \in 1..i : GivesPortrait(j, n)

\* Row i connects two names that are both registered when it is processed.
Connects(i) ==
    /\ RegisteredBy(df_merged[i].source_label, i)
    /\ RegisteredBy(df_merged[i].target_label, i)

\* The pair of names row i connects.
PairOf(i) == {df_merged[i].source_label, df_merged[i].target_label}

NodeIds == {nt_nodes[k].id : k \in DOMAIN nt_nodes}

\* C1 as stated: the built graph has one node per distinct name of
\* source_label and target_label, whatever the photo cells hold.
C1_NodeUniqueness ==
    Built => /\ Len(nt_nodes) = Cardinality(TableNames)
             /\ NodeIds = TableNames

\* C1 amended: the built graph has one node per distinct name that some row
\* gives a non-empty photo, in the role the name has in that row.
C1_NodePerNameWithPortrait ==
    Built =>
        /\ NodeIds = {n \in TableNames : RegisteredBy(n, Len(df_merged))}
        /\ Len(nt_nodes) = Cardinality(NodeIds)
        /\ Len(nx_nodes) = Len(nt_nodes)

\* A graph built from two rows with two names, one of them without a
\* portrait: one node.
C1_Witness ==
    /\ Built
    /\ Len(df_merged) = 2
    /\ Cardinality(TableNames) = 2
    /\ Len(nt_nodes) = 1
    /\ df_merged[1].target_label = None

\* Every row of the table names its source and its target.
AllNamed ==
    \A i \in DOMAIN df_merged :
        Truthy(df_merged[i].source_label) /\ Truthy(df_merged[i].target_label)

\* C2 as stated: the built graph has exactly one edge per row of the table
\* (of a table whose rows all name both ends).
C2_EdgeMultiplicity ==
    (Built /\ AllNamed) => Len(nt_edges) = Len(df_merged)

\* C2 amended: the built graph has one edge per distinct unordered pair of
\* names connected by a row whose two names are both registered when the row
\* is processed; rows between the same pair share one edge, and there are
\* never more edges than rows.
C2_EdgePerConnectedPair ==
    Built =>
        /\ {{nt_edges[k].from, nt_edges[k].to} : k \in DOMAIN nt_edges}
                = {PairOf(i) : i \in {j \in DOMAIN df_merged : Connects(j)}}
        /\ \A k, l \in DOMAIN nt_edges :
                {nt_edges[k].from, nt_edges[k].to} = {nt_edges[l].from, nt_edges[l].to}
                    => k = l
        /\ Len(nt_edges) <= Len(df_merged)
        /\ Len(nx_edges) = Len(nt_edges)

\* A graph built from two rows between the same two names, in opposite
\* directions, both with portraits: one edge.
C2_Witness ==
    /\ Built
    /\ Len(df_merged) = 2
    /\ Connects(1) /\ Connects(2)
    /\ df_merged[1].source_label = df_merged[2].target_label
    /\ df_merged[1].target_label = df_merged[2].source_label
    /\ df_merged[1].source_label # df_merged[1].target_label
    /\ Len(nt_edges) = 1

\* Row i is the first row in which the name n occurs.
FirstOccurrence(i, n) ==
    \A j \in 1..(i - 1) : df_merged[j].source_label # n /\ df_merged[j].target_label # n

PortraitIn(i, n) ==
    IF df_merged[i].source_label = n /\ RealPhoto(df_merged[i].source_photo_url)
    THEN df_merged[i].source_photo_url
    ELSE df_merged[i].target_photo_url

C4_DefaultRelationship ==
    (Built /\ AllNamed) =>
        \A i \in DOMAIN df_merged :
            ~Truthy(df_merged[i].relationship) =>
                \E k \in DOMAIN nt_edges :
                    /\ {nt_edges[k].from, nt_edges[k].to} = PairOf(i)
                    /\ nt_edges[k].label = "related"
                    /\ nt_edges[k].title = "related"

\* Row i is the last row that connects its pair of names.
LastOfPair(i) ==
    /\ Connects(i)
    /\ \A j \in (i + 1)..Len(df_merged) : ~(Connects(j) /\ PairOf(j) = PairOf(i))

\* C4 amended: a row with an empty relationship whose two names are both
\* registered when it is processed, and which no later such row between the
\* same pair follows, gives the graph an edge between its two names whose
\* label and tooltip are "related"; every edge carries the relationship of
\* the last row that connects its pair.
C4_DefaultRelationshipOfLastRow ==
    Built =>
        \A i \in DOMAIN df_merged :
            LastOfPair(i) =>
                \E k \in DOMAIN nt_edges :
                    /\ {nt_edges[k].from, nt_edges[k].to} = PairOf(i)
                    /\ nt_edges[k].label =
                         (IF Truthy(df_merged[i].relationship)
                          THEN df_merged[i].relationship ELSE "related")
                    /\ nt_edges[k].title = nt_edges[k].label

\* A graph built from a row with a relationship followed by a row between
\* the same names with none: the edge is labelled "related".
C4_Witness ==
    /\ Built
    /\ Len(df_merged) = 2
    /\ Connects(1) /\ LastOfPair(2) /\ PairOf(1) = PairOf(2)
    /\ df_merged[1].relationship = "friend"
    /\ df_merged[2].relationship = None
    /\ Len(nt_edges) = 1
    /\ nt_edges[1].label = "related"

====
